---- MODULE Spec2Model ----
(***************************************************************************)
(* Authentication and credential lifecycle of the contacts API             *)
(* (src/src/routes/auth.py over src/src/repository/users.py and the User   *)
(* table of src/src/database/models.py).                                   *)
(*                                                                         *)
(* The user store is the sequence of rows of the users table; a row's id   *)
(* is its position.  Tokens are claim bundles (subject, scope, issued_at,  *)
(* expires_at) with a signature mark; the token codec and the password     *)
(* hasher live in src/services/auth.py, which is not part of the sources,  *)
(* and are modelled from the specification and from the tests that pin     *)
(* their observable results.                                               *)
(*                                                                         *)
(* Spec         : every handler of the auth routes runs to completion as   *)
(*                one step.                                                *)
(* ConcSpec     : signup and refresh_token are split at their store        *)
(*                accesses and run as two in-flight requests.              *)
(* ContactsSpec : two confirmed users log in and work on the contacts      *)
(*                table (src/src/routes/contacts.py over                   *)
(*                src/src/repository/contacts.py).                         *)
(***************************************************************************)
EXTENDS Integers, Sequences, FiniteSets, TLC

VARIABLES
    users,      \* rows of the users table
    now,        \* the clock the codec reads
    issued,     \* bearer tokens handed out in responses
    mailbox,    \* latest email token delivered to each address
    resp,       \* response of the request just handled
    reqs,       \* the in-flight requests of ConcSpec
    contacts    \* rows of the contacts table and the last id it handed out

vars == <<users, now, issued, mailbox, resp, reqs, contacts>>

(***************************************************************************)
(* Bounds and input sets                                                   *)
(***************************************************************************)
MaxTime == 3

Emails == {"a@x.com", "b@x.com"}

Usernames == {"deadpool"}

Passwords == {"secret1", "secret2"}

Reqs == {1, 2}

(***************************************************************************)
(* Token codec and credential hasher (src/services/auth.py)                *)
(***************************************************************************)
AccessTTL == 1

RefreshTTL == 2

EmailTTL == 2

\* the null value of the nullable refresh_token column, shaped like a token
NoToken == [sub |-> "", scope |-> "null", iat |-> 0, exp |-> 0, sig |-> "none"]

\* a string that is no token at all ("invalid_refresh_token" of the tests)
Garbage == [sub |-> "", scope |-> "garbage", iat |-> 0, exp |-> 0, sig |-> "none"]

IssueToken(sub, scope, ttl) ==
    [sub |-> sub, scope |-> scope, iat |-> now, exp |-> now + ttl, sig |-> "server"]

create_access_token(sub) == IssueToken(sub, "access_token", AccessTTL)

create_refresh_token(sub) == IssueToken(sub, "refresh_token", RefreshTTL)

\* one kind of token for the confirmation and for the reset email
\* (src/src/services/email.py lines 40 and 69 call the same function)
create_email_token(sub) == IssueToken(sub, "email_token", EmailTTL)

\* parse: signature, structure, expiry, then (when expected # "") purpose
ParseToken(tok, expected) ==
    IF tok.sig # "server" THEN [ok |-> FALSE, err |-> "InvalidSignature", sub |-> ""]
    ELSE IF tok.scope \notin {"access_token", "refresh_token", "email_token"}
        THEN [ok |-> FALSE, err |-> "Malformed", sub |-> ""]
    ELSE IF now > tok.exp THEN [ok |-> FALSE, err |-> "Expired", sub |-> ""]
    ELSE IF expected # "" /\ tok.scope # expected
        THEN [ok |-> FALSE, err |-> "WrongPurpose", sub |-> ""]
    ELSE [ok |-> TRUE, err |-> "", sub |-> tok.sub]

decode_refresh_token(tok) == ParseToken(tok, "refresh_token")

\* no purpose is examined: test_confirmed_email_success and test_reset_password
\* present the stored refresh token and are answered with success
get_email_from_token(tok) == ParseToken(tok, "")

get_password_hash(password) == "$2b$" \o password

verify_password(plain, hashed) == hashed = "$2b$" \o plain

Digests == {get_password_hash(p) : p \in Passwords}

(***************************************************************************)
(* Tokens a client can present: every bearer token handed out in a         *)
(* response so far, the latest email token delivered to each mailbox, a    *)
(* refresh token naming any email under a signature the server did not     *)
(* make, and a string that is no token.                                    *)
(***************************************************************************)
Forged ==
    {[sub |-> e, scope |-> "refresh_token", iat |-> now, exp |-> now + RefreshTTL,
      sig |-> "forged"] : e \in Emails}

InMailbox == {mailbox[e] : e \in Emails} \ {NoToken}

Presentable == issued \cup InMailbox \cup Forged \cup {Garbage}

(***************************************************************************)
(* User store (src/src/repository/users.py, src/src/database/models.py)    *)
(***************************************************************************)
\* index of the first row with this email, 0 for None
get_user_by_email(store, email) ==
    IF \E i \in 1..Len(store) : store[i].email = email
    THEN CHOOSE i \in 1..Len(store) :
            /\ store[i].email = email
            /\ \A j \in 1..(i - 1) : store[j].email # email
    ELSE 0

\* the unique constraint of User.email
EmailUnique(store, email) == \A i \in 1..Len(store) : store[i].email # email

NewUser(store, body) ==
    [id |-> Len(store) + 1, username |-> body.username, email |-> body.email,
     password |-> body.password, avatar |-> <<"gravatar", body.email>>,
     refresh_token |-> NoToken, confirmed |-> FALSE]

\* db.add + db.commit: the row is appended unless the unique index rejects it
create_user(store, body) ==
    IF EmailUnique(store, body.email)
    THEN [ok |-> TRUE, store |-> Append(store, NewUser(store, body))]
    ELSE [ok |-> FALSE, store |-> store]

update_token(store, i, token) == [store EXCEPT ![i].refresh_token = token]

repository_confirmed_email_NotStored(store, email) == store

repository_confirmed_email(store, email) ==
    [store EXCEPT ![get_user_by_email(store, email)].confirmed = TRUE]

update_password_NotStored(store, i, hashed_password) == store

\* a variant that also ends the session of the user
update_password_EndsSession(store, i, hashed_password) ==
    [store EXCEPT ![i].password = hashed_password, ![i].refresh_token = NoToken]

update_password(store, i, hashed_password) ==
    [store EXCEPT ![i].password = hashed_password]

(***************************************************************************)
(* Responses                                                               *)
(***************************************************************************)
\* the parameters of a contacts request, echoed with its response
NoQuery == [contact_id |-> 0, first_name |-> <<>>, last_name |-> <<>>, email |-> <<>>,
            limit |-> 0, offset |-> 0]

NoMail == [template |-> "none", to |-> "", username |-> ""]

Mail(template, user) == [template |-> template, to |-> user.email, username |-> user.username]

Response(op, status, detail) ==
    [op |-> op, status |-> status, detail |-> detail, email |-> "",
     token |-> NoToken, access_token |-> NoToken, refresh_token |-> NoToken,
     token_type |-> "", mail |-> NoMail, query |-> NoQuery, body |-> {}]

NoResp == Response("none", 0, "")

\* what a handler leaves behind: the store, the response, the tokens handed
\* out (in the response or by a delivered email) and the time it took
Outcome(store, r, out, dt) == [store |-> store, resp |-> r, out |-> out, dt |-> dt]

\* the email of a background task reaches the mailbox or is lost
\* (ConnectionErrors are printed, src/src/services/email.py)
Delivered(sub, delivered) == IF delivered THEN {create_email_token(sub)} ELSE {}

(***************************************************************************)
(* Handlers of src/src/routes/auth.py                                      *)
(***************************************************************************)
SignupBody_Plain(body) == body

SignupBody(body) == [body EXCEPT !.password = get_password_hash(body.password)]

SignupExists_Skipped(store, body) == FALSE

SignupExists(store, body) == get_user_by_email(store, body.email) # 0

\* a variant that undoes the insert when the email cannot be delivered
SignupCreated_RollsBack(store, body, delivered) ==
    LET created == create_user(store, SignupBody(body)) IN
    IF ~created.ok \/ ~delivered
    THEN Outcome(store, [Response("signup", 500, "Internal Server Error")
                            EXCEPT !.email = body.email], {}, 0)
    ELSE LET new_user == created.store[Len(created.store)] IN
         Outcome(created.store,
                 [Response("signup", 201,
                           "User successfully created. Check your email for confirmation.")
                    EXCEPT !.email = new_user.email,
                           !.mail = Mail("email_verify_template.html", new_user)],
                 Delivered(new_user.email, delivered), 0)

SignupCreated(store, body, delivered) ==
    LET created == create_user(store, SignupBody(body)) IN
    IF ~created.ok
    THEN Outcome(store, [Response("signup", 500, "Internal Server Error")
                            EXCEPT !.email = body.email], {}, 0)
    ELSE LET new_user == created.store[Len(created.store)] IN
         Outcome(created.store,
                 [Response("signup", 201,
                           "User successfully created. Check your email for confirmation.")
                    EXCEPT !.email = new_user.email,
                           !.mail = Mail("email_verify_template.html", new_user)],
                 Delivered(new_user.email, delivered), 0)

signup_result(store, body, delivered) ==
    IF SignupExists(store, body)
    THEN Outcome(store, [Response("signup", 409, "Account already exists")
                            EXCEPT !.email = body.email], {}, 0)
    ELSE SignupCreated(store, body, delivered)

LoginConfirmed_Skipped(user) == TRUE

LoginConfirmed(user) == user.confirmed

LoginTokenStore_NotStored(store, i, token) == store

LoginTokenStore(store, i, token) == update_token(store, i, token)

\* a variant that ends the session of the user a failed login names
LoginFailed_EndsSession(store, i, email, detail) ==
    Outcome(IF i = 0 THEN store ELSE update_token(store, i, NoToken),
            [Response("login", 401, detail) EXCEPT !.email = email], {}, 0)

\* lines 91-102: the three refusals raise before anything is written
LoginFailed(store, i, email, detail) ==
    Outcome(store, [Response("login", 401, detail) EXCEPT !.email = email], {}, 0)

login_result(store, email, password) ==
    LET i == get_user_by_email(store, email)
        failed(detail) == LoginFailed(store, i, email, detail)
    IN  IF i = 0 THEN failed("Invalid email")
        ELSE IF ~LoginConfirmed(store[i]) THEN failed("Email not confirmed")
        ELSE IF ~verify_password(password, store[i].password)
            THEN failed("Invalid password")
        ELSE LET access == create_access_token(store[i].email)
                 refresh == create_refresh_token(store[i].email)
             IN  Outcome(LoginTokenStore(store, i, refresh),
                         [Response("login", 200, "")
                            EXCEPT !.email = email, !.access_token = access,
                                   !.refresh_token = refresh, !.token_type = "bearer"],
                         {access, refresh}, 1)

RefreshMatches(user, token) == user.refresh_token = token

RefreshMismatchStore_Kept(store, i) == store

RefreshMismatchStore(store, i) == update_token(store, i, NoToken)

RefreshRotateStore_NotStored(store, i, token) == store

RefreshRotateStore(store, i, token) == update_token(store, i, token)

\* lines 132-145: compare the loaded row with the presented token, then write
RefreshCompare(store, i, loaded, token, email) ==
    IF ~RefreshMatches(loaded, token)
    THEN Outcome(RefreshMismatchStore(store, i),
                 [Response("refresh_token", 401, "Invalid refresh token")
                    EXCEPT !.email = email, !.token = token], {}, 0)
    ELSE LET access == create_access_token(email)
             refresh == create_refresh_token(email)
         IN  Outcome(RefreshRotateStore(store, i, refresh),
                     [Response("refresh_token", 200, "")
                        EXCEPT !.email = email, !.token = token,
                               !.access_token = access, !.refresh_token = refresh,
                               !.token_type = "bearer"],
                     {access, refresh}, 1)

RefreshRejected(store, token, status, detail) ==
    Outcome(store, Response("refresh_token", status, detail), {}, 0)

\* the claims of the token are trusted before the codec has accepted it
refresh_token_result_Unverified(store, token) ==
    LET i == get_user_by_email(store, token.sub)
    IN  IF i = 0
        THEN RefreshRejected(store, token, 401, "Could not validate credentials")
        ELSE RefreshCompare(store, i, store[i], token, token.sub)

refresh_token_result(store, token) ==
    LET parsed == decode_refresh_token(token)
        i == get_user_by_email(store, parsed.sub)
    IN  IF ~parsed.ok
        THEN RefreshRejected(store, token, 401, "Could not validate credentials")
        ELSE IF i = 0
            THEN RefreshRejected(store, token, 500, "Internal Server Error")
        ELSE RefreshCompare(store, i, store[i], token, parsed.sub)

\* the subject of the token is trusted before the codec has accepted it
confirmed_email_result_Unverified(store, token) ==
    LET i == get_user_by_email(store, token.sub)
        done(status, detail, after) ==
            Outcome(after, [Response("confirmed_email", status, detail)
                              EXCEPT !.email = token.sub], {}, 0)
    IN  IF i = 0 THEN done(400, "Verification error", store)
        ELSE IF store[i].confirmed THEN done(200, "Your email is already confirmed", store)
        ELSE done(200, "Email confirmed", repository_confirmed_email(store, token.sub))

confirmed_email_result(store, token) ==
    LET parsed == get_email_from_token(token)
        i == get_user_by_email(store, parsed.sub)
        done(status, detail, after) ==
            Outcome(after, [Response("confirmed_email", status, detail)
                              EXCEPT !.email = parsed.sub], {}, 0)
    IN  IF ~parsed.ok THEN done(422, "Invalid token for email verification", store)
        ELSE IF i = 0 THEN done(400, "Verification error", store)
        ELSE IF store[i].confirmed THEN done(200, "Your email is already confirmed", store)
        ELSE done(200, "Email confirmed", repository_confirmed_email(store, parsed.sub))

verify_by_email_result(store, email, delivered) ==
    LET i == get_user_by_email(store, email)
        done(status, detail, mail, out) ==
            Outcome(store, [Response("verify_by_email", status, detail)
                              EXCEPT !.email = email, !.mail = mail], out, 0)
    IN  IF i = 0 THEN done(500, "Internal Server Error", NoMail, {})
        ELSE IF store[i].confirmed
            THEN done(200, "Your email is already confirmed", NoMail, {})
        ELSE done(200, "Check your email for confirmation.",
                  Mail("email_verify_template.html", store[i]),
                  Delivered(store[i].email, delivered))

\* a variant that tells the caller that the email is unknown
forgot_password_result_Reveals(store, email, delivered) ==
    LET i == get_user_by_email(store, email)
    IN  IF i # 0
        THEN Outcome(store, [Response("forgot_password", 202,
                                      "Check your email for reset password.")
                               EXCEPT !.email = email,
                                      !.mail = Mail("email_reset_template.html", store[i])],
                     Delivered(store[i].email, delivered), 0)
        ELSE Outcome(store, [Response("forgot_password", 404, "Not Found")
                               EXCEPT !.email = email], {}, 0)

forgot_password_result(store, email, delivered) ==
    LET i == get_user_by_email(store, email)
        done(mail, out) ==
            Outcome(store, [Response("forgot_password", 202,
                                     "Check your email for reset password.")
                              EXCEPT !.email = email, !.mail = mail], out, 0)
    IN  IF i # 0
        THEN done(Mail("email_reset_template.html", store[i]),
                  Delivered(store[i].email, delivered))
        ELSE done(NoMail, {})

ResetHashed_Plain(new_password) == new_password

ResetHashed(new_password) == get_password_hash(new_password)

ResetFormMatches_Skipped(new_password, confirm_password) == TRUE

ResetFormMatches(new_password, confirm_password) == new_password = confirm_password

\* the subject of the token is trusted before the codec has accepted it
reset_password_result_Unverified(store, token, new_password, confirm_password) ==
    LET i == get_user_by_email(store, token.sub)
        done(status, detail, after) ==
            Outcome(after, [Response("reset_password", status, detail)
                              EXCEPT !.email = token.sub], {}, 0)
    IN  IF ~ResetFormMatches(new_password, confirm_password)
        THEN Outcome(store, Response("reset_password", 422, "Unprocessable Entity"), {}, 0)
        ELSE IF i = 0
            THEN done(500, "An unexpected error occurred. Report this message to support",
                      store)
        ELSE done(200, "Password reset successfully",
                  update_password(store, i, ResetHashed(new_password)))

reset_password_result(store, token, new_password, confirm_password) ==
    LET parsed == get_email_from_token(token)
        i == get_user_by_email(store, parsed.sub)
        done(status, detail, after) ==
            Outcome(after, [Response("reset_password", status, detail)
                              EXCEPT !.email = parsed.sub], {}, 0)
    IN  IF ~ResetFormMatches(new_password, confirm_password)
        THEN Outcome(store, Response("reset_password", 422, "Unprocessable Entity"), {}, 0)
        ELSE IF ~parsed.ok \/ i = 0
            THEN done(500, "An unexpected error occurred. Report this message to support",
                      store)
        ELSE done(200, "Password reset successfully",
                  update_password(store, i, ResetHashed(new_password)))

\* a variant that also asks for a live session of the subject
get_current_user_Revocable(store, token) ==
    LET parsed == ParseToken(token, "access_token")
        i == get_user_by_email(store, parsed.sub)
    IN  IF parsed.ok /\ i # 0 /\ store[i].refresh_token # NoToken THEN i ELSE 0

\* the dependency of every protected endpoint: the bearer token is parsed as
\* an access token and the row of its subject is loaded; 0 stands for the
\* credentials exception.  The cache in front of the load is keyed by email,
\* and neither the email nor the id of a row ever changes, so a hit and a miss
\* resolve to the same user
get_current_user(store, token) ==
    LET parsed == ParseToken(token, "access_token")
        i == get_user_by_email(store, parsed.sub)
    IN  IF parsed.ok /\ i # 0 THEN i ELSE 0

\* GET /api/users/me: the resolved user is the answer
read_users_me_result(store, token) ==
    LET i == get_current_user(store, token)
    IN  IF i = 0
        THEN Outcome(store, Response("read_users_me", 401,
                                     "Could not validate credentials"), {}, 0)
        ELSE Outcome(store, [Response("read_users_me", 200, "")
                                EXCEPT !.email = store[i].email], {}, 0)

(***************************************************************************)
(* State machine                                                           *)
(***************************************************************************)
NoBody == [username |-> "", email |-> "", password |-> ""]

NoUser == [id |-> 0, username |-> "", email |-> "", password |-> "",
           avatar |-> <<"gravatar", "">>, refresh_token |-> NoToken, confirmed |-> FALSE]

\* an in-flight request: where it stands, its input, the row it loaded
IdleReq == [pc |-> "idle", body |-> NoBody, token |-> NoToken, sub |-> "",
            row |-> 0, loaded |-> NoUser, resp |-> NoResp]

\* the empty contacts table
NoContacts == [rows |-> <<>>, last_id |-> 0]

Init ==
    /\ users = <<>>
    /\ now = 0
    /\ issued = {}
    /\ mailbox = [e \in Emails |-> NoToken]
    /\ resp = NoResp
    /\ reqs = [r \in Reqs |-> IdleReq]
    /\ contacts = NoContacts

Bearer(out) == {t \in out : t.scope # "email_token"}

\* a delivered email replaces the older one in the recipient's mailbox
Deliver(box, out) ==
    [e \in Emails |->
        IF \E t \in out : t.scope = "email_token" /\ t.sub = e
        THEN CHOOSE t \in out : t.scope = "email_token" /\ t.sub = e
        ELSE box[e]]

\* a handler that runs to completion, one request at a time; one that issues
\* bearer tokens takes a clock reading of its own (no two issuances share an
\* issued_at), so it is enabled only below the time bound
Handle(o) ==
    /\ resp = NoResp
    /\ now + o.dt <= MaxTime
    /\ users' = o.store
    /\ resp' = o.resp
    /\ issued' = issued \cup Bearer(o.out)
    /\ mailbox' = Deliver(mailbox, o.out)
    /\ now' = now + o.dt
    /\ UNCHANGED <<reqs, contacts>>

\* each address signs up with a password of its own
SignupPassword(email) == IF email = "a@x.com" THEN "secret1" ELSE "secret2"

Bodies == {[username |-> u, email |-> e, password |-> SignupPassword(e)] :
            u \in Usernames, e \in Emails}

signup == \E body \in Bodies, delivered \in BOOLEAN :
    Handle(signup_result(users, body, delivered))

login == \E email \in Emails, password \in Passwords :
    Handle(login_result(users, email, password))

refresh_token == \E token \in Presentable :
    Handle(refresh_token_result(users, token))

confirmed_email == \E token \in Presentable :
    Handle(confirmed_email_result(users, token))

verify_by_email == \E email \in Emails, delivered \in BOOLEAN :
    Handle(verify_by_email_result(users, email, delivered))

forgot_password == \E email \in Emails, delivered \in BOOLEAN :
    Handle(forgot_password_result(users, email, delivered))

\* the form fields: every matching pair and one pair that does not match
ResetForms == {<<p, p>> : p \in Passwords} \cup {<<"secret1", "secret2">>}

reset_password == \E token \in Presentable, form \in ResetForms :
    Handle(reset_password_result(users, token, form[1], form[2]))

read_users_me == \E token \in Presentable :
    Handle(read_users_me_result(users, token))

\* the client takes the response; the next request can start
Respond ==
    /\ resp # NoResp
    /\ resp' = NoResp
    /\ UNCHANGED <<users, now, issued, mailbox, reqs, contacts>>

\* time passes between requests
Tick ==
    /\ resp = NoResp
    /\ now < MaxTime
    /\ now' = now + 1
    /\ resp' = NoResp
    /\ UNCHANGED <<users, issued, mailbox, reqs, contacts>>

Next ==
    \/ signup
    \/ login
    \/ refresh_token
    \/ confirmed_email
    \/ verify_by_email
    \/ forgot_password
    \/ reset_password
    \/ read_users_me
    \/ Respond
    \/ Tick

Spec == Init /\ [][Next]_vars

(***************************************************************************)
(* Two requests in flight: signup and refresh_token stop between their     *)
(* read of the store and their write to it                                 *)
(***************************************************************************)
Done(r) == [IdleReq EXCEPT !.pc = "done", !.resp = r]

\* the requests of the race start once the sequential prefix is over
Started == \E r \in Reqs : reqs[r].pc # "idle"

Before(handler) == ~Started /\ handler

Finish(r, o) ==
    /\ now + o.dt <= MaxTime
    /\ users' = o.store
    /\ issued' = issued \cup Bearer(o.out)
    /\ mailbox' = Deliver(mailbox, o.out)
    /\ now' = now + o.dt
    /\ reqs' = [reqs EXCEPT ![r] = Done(o.resp)]
    /\ UNCHANGED <<resp, contacts>>

\* signup, line 62-66: the existence check
SignupCheck(r) == \E body \in Bodies :
    /\ resp = NoResp
    /\ reqs[r].pc = "idle"
    /\ IF SignupExists(users, body)
       THEN reqs' = [reqs EXCEPT ![r] = Done(signup_result(users, body, FALSE).resp)]
       ELSE reqs' = [reqs EXCEPT ![r].pc = "signup_insert", ![r].body = body]
    /\ UNCHANGED <<users, now, issued, mailbox, resp, contacts>>

\* signup, line 67-75: hash, insert, schedule the email
SignupInsert(r) == \E delivered \in BOOLEAN :
    /\ reqs[r].pc = "signup_insert"
    /\ Finish(r, SignupCreated(users, reqs[r].body, delivered))

\* refresh_token, line 129-131: decode the token, load the user
RefreshLoad(r) == \E token \in Presentable :
    LET parsed == decode_refresh_token(token)
        i == get_user_by_email(users, parsed.sub)
    IN  /\ resp = NoResp
        /\ reqs[r].pc = "idle"
        /\ IF ~parsed.ok \/ i = 0
           THEN reqs' = [reqs EXCEPT ![r] = Done(refresh_token_result(users, token).resp)]
           ELSE reqs' = [reqs EXCEPT ![r].pc = "refresh_compare", ![r].token = token,
                                     ![r].sub = parsed.sub, ![r].row = i,
                                     ![r].loaded = users[i]]
        /\ UNCHANGED <<users, now, issued, mailbox, resp, contacts>>

\* refresh_token, line 132-145: compare what was loaded, write the store
RefreshWrite(r) ==
    /\ reqs[r].pc = "refresh_compare"
    /\ Finish(r, RefreshCompare(users, reqs[r].row, reqs[r].loaded, reqs[r].token,
                                reqs[r].sub))

ConcNext ==
    \/ Before(signup)
    \/ Before(confirmed_email)
    \/ Before(login)
    \/ Respond
    \/ Tick
    \/ \E r \in Reqs : SignupCheck(r)
    \/ \E r \in Reqs : SignupInsert(r)
    \/ \E r \in Reqs : RefreshLoad(r)
    \/ \E r \in Reqs : RefreshWrite(r)

ConcSpec == Init /\ [][ConcNext]_vars

(***************************************************************************)
(* Contacts table (src/src/repository/contacts.py, Contact of              *)
(* src/src/database/models.py).  A row carries the columns the queries     *)
(* look at; names and emails are sequences of characters so that           *)
(* contains() is a substring test.                                         *)
(***************************************************************************)
MaxContactId == 2

\* timedelta(weeks=1), in units of the clock
Week == 1

ContactBodies ==
    {[first_name |-> <<"a", "n", "n", "a">>, last_name |-> <<"l", "e", "e">>,
      email |-> <<"a", "n", "n", "@">>, birthday |-> 0],
     [first_name |-> <<"h", "a", "n", "n">>, last_name |-> <<"k", "i", "m">>,
      email |-> <<"h", "a", "n", "@">>, birthday |-> 1],
     [first_name |-> <<"b", "o", "b">>, last_name |-> <<"l", "e", "e", "d">>,
      email |-> <<"b", "o", "b", "@">>, birthday |-> 3]}

ContactIds == 1..MaxContactId

\* a filter that was not supplied (None); Query(min_length=3) of the route
\* keeps the empty string out
NoFilter == <<>>

FirstNames == {NoFilter, <<"a", "n", "n">>}

LastNames == {NoFilter, <<"l", "e", "e">>}

EmailParts == {NoFilter, <<"b", "o", "b">>}

Limits == {1, 2}

Offsets == {0, 1}

Min(a, b) == IF a <= b THEN a ELSE b

Range(seq) == {seq[i] : i \in 1..Len(seq)}

\* Column.contains(part)
Contains(text, part) ==
    \E i \in 1..(Len(text) - Len(part) + 1) : SubSeq(text, i, i + Len(part) - 1) = part

\* .limit(limit).offset(offset).all(): skip offset rows, take at most limit,
\* in the order of the table
Page(rows, limit, offset) == SubSeq(rows, offset + 1, Min(Len(rows), offset + limit))

\* a variant without the fallback to the unfiltered page
get_contacts_NoFallback(limit, offset, user_id, rows, first_name, last_name, email) ==
    LET by(field, part) ==
            IF part # NoFilter
            THEN Page(SelectSeq(rows, LAMBDA c : c.user_id = user_id
                                                 /\ Contains(c[field], part)),
                      limit, offset)
            ELSE <<>>
    IN  Range(by("first_name", first_name) \o by("last_name", last_name)
              \o by("email", email))

get_contacts(limit, offset, user_id, rows, first_name, last_name, email) ==
    LET by(field, part) ==
            IF part # NoFilter
            THEN Page(SelectSeq(rows, LAMBDA c : c.user_id = user_id
                                                 /\ Contains(c[field], part)),
                      limit, offset)
            ELSE <<>>
        found == Range(by("first_name", first_name) \o by("last_name", last_name)
                       \o by("email", email))
    IN  IF found # {} THEN found
        ELSE Range(Page(SelectSeq(rows, LAMBDA c : c.user_id = user_id), limit, offset))

\* a variant that looks the row up by its id alone
get_contact_by_id_AnyOwner(contact_id, user_id, rows) ==
    IF \E i \in 1..Len(rows) : rows[i].id = contact_id
    THEN CHOOSE i \in 1..Len(rows) : rows[i].id = contact_id
    ELSE 0

\* index of the row with this id and this owner, 0 for None
get_contact_by_id(contact_id, user_id, rows) ==
    IF \E i \in 1..Len(rows) : rows[i].user_id = user_id /\ rows[i].id = contact_id
    THEN CHOOSE i \in 1..Len(rows) : rows[i].user_id = user_id /\ rows[i].id = contact_id
    ELSE 0

\* the unique constraint of Contact.email, over the rows of all users
ContactEmailFree(rows, email, self) ==
    \A i \in 1..Len(rows) : i # self => rows[i].email # email

NewContact(id, user_id, body) ==
    [id |-> id, user_id |-> user_id, first_name |-> body.first_name,
     last_name |-> body.last_name, email |-> body.email, birthday |-> body.birthday]

\* db.add + db.commit; "error" stands for the IntegrityError of the commit
create(body, user_id, table) ==
    IF ContactEmailFree(table.rows, body.email, 0)
    THEN [result |-> "ok",
          table |-> [rows |-> Append(table.rows,
                                     NewContact(table.last_id + 1, user_id, body)),
                     last_id |-> table.last_id + 1]]
    ELSE [result |-> "error", table |-> table]

update(contact_id, body, user_id, table) ==
    LET i == get_contact_by_id(contact_id, user_id, table.rows)
    IN  IF i = 0 THEN [result |-> "none", table |-> table]
        ELSE IF ~ContactEmailFree(table.rows, body.email, i)
            THEN [result |-> "error", table |-> table]
        ELSE [result |-> "ok",
              table |-> [table EXCEPT
                            !.rows[i] = NewContact(contact_id, user_id, body)]]

remove(contact_id, user_id, table) ==
    LET i == get_contact_by_id(contact_id, user_id, table.rows)
    IN  IF i = 0 THEN [result |-> "none", table |-> table]
        ELSE [result |-> "ok",
              table |-> [table EXCEPT
                            !.rows = SubSeq(table.rows, 1, i - 1)
                                     \o SubSeq(table.rows, i + 1, Len(table.rows))]]

get_upcoming_birthdays(limit, offset, user_id, rows) ==
    Range(Page(SelectSeq(rows, LAMBDA c : /\ c.user_id = user_id
                                          /\ c.birthday >= now
                                          /\ c.birthday <= now + Week),
               limit, offset))

(***************************************************************************)
(* Contacts routes (src/src/routes/contacts.py)                            *)
(***************************************************************************)
\* the user is read from the token without asking the codec
CurrentUser_Unverified(store, token) == get_user_by_email(store, token.sub)

\* current_user: User = Depends(auth_service.get_current_user)
CurrentUser(store, token) == get_current_user(store, token)

ContactsOutcome(table, r) == [table |-> table, resp |-> r]

\* the dependency raised: the handler does not run
Unauthorized(op, table) ==
    ContactsOutcome(table, Response(op, 401, "Could not validate credentials"))

Query(contact_id, first_name, last_name, email, limit, offset) ==
    [contact_id |-> contact_id, first_name |-> first_name, last_name |-> last_name,
     email |-> email, limit |-> limit, offset |-> offset]

ById(contact_id) == Query(contact_id, NoFilter, NoFilter, NoFilter, 0, 0)

ContactsAnswer(op, status, detail, user, query, body) ==
    [Response(op, status, detail)
        EXCEPT !.email = user.email, !.query = query, !.body = body]

get_contacts_by_upcoming_birthdays_result(store, table, token, limit, offset) ==
    LET u == CurrentUser(store, token)
    IN  IF u = 0 THEN Unauthorized("get_contacts_by_upcoming_birthdays", table)
        ELSE ContactsOutcome(table,
                ContactsAnswer("get_contacts_by_upcoming_birthdays", 200, "", store[u],
                               Query(0, NoFilter, NoFilter, NoFilter, limit, offset),
                               get_upcoming_birthdays(limit, offset, store[u].id,
                                                      table.rows)))

get_contacts_result(store, table, token, first_name, last_name, email, limit, offset) ==
    LET u == CurrentUser(store, token)
    IN  IF u = 0 THEN Unauthorized("get_contacts", table)
        ELSE ContactsOutcome(table,
                ContactsAnswer("get_contacts", 200, "", store[u],
                               Query(0, first_name, last_name, email, limit, offset),
                               get_contacts(limit, offset, store[u].id, table.rows,
                                            first_name, last_name, email)))

get_contact_result(store, table, token, contact_id) ==
    LET u == CurrentUser(store, token)
        i == get_contact_by_id(contact_id, store[u].id, table.rows)
    IN  IF u = 0 THEN Unauthorized("get_contact", table)
        ELSE IF i = 0
            THEN ContactsOutcome(table,
                    ContactsAnswer("get_contact", 404, "Not Found", store[u],
                                   ById(contact_id), {}))
        ELSE ContactsOutcome(table,
                ContactsAnswer("get_contact", 200, "", store[u], ById(contact_id),
                               {table.rows[i]}))

create_contact_result(store, table, token, body) ==
    LET u == CurrentUser(store, token)
        created == create(body, store[u].id, table)
    IN  IF u = 0 THEN Unauthorized("create_contact", table)
        ELSE IF created.result = "error"
            THEN ContactsOutcome(table,
                    ContactsAnswer("create_contact", 500, "Internal Server Error",
                                   store[u], NoQuery, {}))
        ELSE ContactsOutcome(created.table,
                ContactsAnswer("create_contact", 201, "", store[u],
                               ById(created.table.last_id),
                               {created.table.rows[Len(created.table.rows)]}))

update_contact_result(store, table, token, contact_id, body) ==
    LET u == CurrentUser(store, token)
        updated == update(contact_id, body, store[u].id, table)
    IN  IF u = 0 THEN Unauthorized("update_contact", table)
        ELSE IF updated.result = "none"
            THEN ContactsOutcome(table,
                    ContactsAnswer("update_contact", 404, "Not Found", store[u],
                                   ById(contact_id), {}))
        ELSE IF updated.result = "error"
            THEN ContactsOutcome(table,
                    ContactsAnswer("update_contact", 500, "Internal Server Error",
                                   store[u], ById(contact_id), {}))
        ELSE ContactsOutcome(updated.table,
                ContactsAnswer("update_contact", 200, "", store[u], ById(contact_id),
                               {NewContact(contact_id, store[u].id, body)}))

remove_contact_result(store, table, token, contact_id) ==
    LET u == CurrentUser(store, token)
        removed == remove(contact_id, store[u].id, table)
    IN  IF u = 0 THEN Unauthorized("remove_contact", table)
        ELSE IF removed.result = "none"
            THEN ContactsOutcome(table,
                    ContactsAnswer("remove_contact", 404, "Not Found", store[u],
                                   ById(contact_id), {}))
        ELSE ContactsOutcome(removed.table,
                ContactsAnswer("remove_contact", 204, "", store[u], ById(contact_id),
                               {}))

\* both users have signed up and confirmed their email at time 0
ContactsInit ==
    LET a == [username |-> "deadpool", email |-> "a@x.com",
              password |-> SignupPassword("a@x.com")]
        b == [username |-> "deadpool", email |-> "b@x.com",
              password |-> SignupPassword("b@x.com")]
        s1 == signup_result(<<>>, a, TRUE).store
        s2 == signup_result(s1, b, TRUE).store
        s3 == confirmed_email_result(s2, IssueToken("a@x.com", "email_token", EmailTTL)).store
    IN  /\ now = 0
        /\ users = confirmed_email_result(
                        s3, IssueToken("b@x.com", "email_token", EmailTTL)).store
        /\ issued = {}
        /\ mailbox = [e \in Emails |-> IssueToken(e, "email_token", EmailTTL)]
        /\ resp = NoResp
        /\ reqs = [r \in Reqs |-> IdleReq]
        /\ contacts = NoContacts

ContactsHandle(o) ==
    /\ resp = NoResp
    /\ contacts' = o.table
    /\ resp' = o.resp
    /\ UNCHANGED <<users, now, issued, mailbox, reqs>>

get_contacts_by_upcoming_birthdays ==
    \E token \in Presentable, limit \in Limits, offset \in Offsets :
        ContactsHandle(get_contacts_by_upcoming_birthdays_result(
                            users, contacts, token, limit, offset))

get_contacts_route ==
    \E token \in Presentable, first_name \in FirstNames, last_name \in LastNames,
       email \in EmailParts, limit \in Limits, offset \in Offsets :
        ContactsHandle(get_contacts_result(users, contacts, token, first_name,
                                           last_name, email, limit, offset))

get_contact == \E token \in Presentable, contact_id \in ContactIds :
    ContactsHandle(get_contact_result(users, contacts, token, contact_id))

\* the table hands out ids up to the bound
create_contact == \E token \in Presentable, body \in ContactBodies :
    /\ contacts.last_id < MaxContactId
    /\ ContactsHandle(create_contact_result(users, contacts, token, body))

update_contact ==
    \E token \in Presentable, contact_id \in ContactIds, body \in ContactBodies :
        ContactsHandle(update_contact_result(users, contacts, token, contact_id, body))

remove_contact == \E token \in Presentable, contact_id \in ContactIds :
    ContactsHandle(remove_contact_result(users, contacts, token, contact_id))

ContactsNext ==
    \/ login
    \/ get_contacts_by_upcoming_birthdays
    \/ get_contacts_route
    \/ get_contact
    \/ create_contact
    \/ update_contact
    \/ remove_contact
    \/ Respond
    \/ Tick

ContactsSpec == ContactsInit /\ [][ContactsNext]_vars

(***************************************************************************)
(* Properties                                                              *)
(***************************************************************************)
Row(email) == get_user_by_email(users, email)

StoredToken(email) == users[Row(email)].refresh_token

Unexpired(token) == now <= token.exp

SignedRefresh(token) == token.sig = "server" /\ token.scope = "refresh_token"

\* what a refresh presenting this token would answer in the current state
RefreshAnswer(token) == refresh_token_result(users, token).resp

\* C1: right after a refresh with token T succeeded the stored refresh token
\* is the one that refresh returned and a refresh presenting T is refused;
\* a refresh token that is refused stays refused in every later state, with
\* 401 'Invalid refresh token' while it is unexpired
C1_Rotated ==
    (resp.op = "refresh_token" /\ resp.status = 200) =>
        /\ StoredToken(resp.email) = resp.refresh_token
        /\ resp.refresh_token # resp.token
        /\ RefreshAnswer(resp.token).status = 401

C3_Mismatch(t) ==
    /\ SignedRefresh(t) /\ Unexpired(t)
    /\ Row(t.sub) # 0
    /\ StoredToken(t.sub) # t

C3_MismatchRefused ==
    \A t \in Presentable :
        C3_Mismatch(t) => /\ RefreshAnswer(t).status = 401
                          /\ RefreshAnswer(t).detail = "Invalid refresh token"

C3_MismatchClearsOnlyToken ==
    [][/\ C3_MismatchRefused
       /\ (resp'.op = "refresh_token" /\ C3_Mismatch(resp'.token)) =>
            /\ Len(users') = Len(users)
            /\ \A i \in 1..Len(users) :
                    users'[i] = IF users[i].email = resp'.token.sub
                                THEN [users[i] EXCEPT !.refresh_token = NoToken]
                                ELSE users[i]]_vars

\* a stale token was refused, the subject's token is gone, another user's is not
C3_Witness ==
    /\ resp.op = "refresh_token"
    /\ resp.detail = "Invalid refresh token"
    /\ StoredToken(resp.email) = NoToken
    /\ \E i \in 1..Len(users) :
            users[i].email # resp.email /\ users[i].refresh_token # NoToken

\* C4: a refresh with a token the codec rejects (forged signature, no token
\* at all, expired, wrong purpose) answers 401 and leaves the store as it was
C4_CodecRefused ==
    \A t \in Presentable :
        ~decode_refresh_token(t).ok =>
            /\ RefreshAnswer(t).status = 401
            /\ RefreshAnswer(t).detail = "Could not validate credentials"

C4_CodecRejectLeavesStore ==
    [][/\ C4_CodecRefused
       /\ (resp'.op = "refresh_token"
            /\ resp'.detail = "Could not validate credentials") => users' = users]_vars

\* the codec refused a token while some user held a stored refresh token
C4_Witness ==
    /\ resp.op = "refresh_token"
    /\ resp.detail = "Could not validate credentials"
    /\ \E i \in 1..Len(users) : users[i].refresh_token # NoToken

\* C5: a successful login or refresh leaves the returned refresh token as the
\* stored one; at most one presentable token per user is accepted by refresh,
\* and every issued refresh token other than the stored one is refused
C5_SingleLiveRefreshToken ==
    /\ (resp.op \in {"login", "refresh_token"} /\ resp.status = 200) =>
            StoredToken(resp.email) = resp.refresh_token
    /\ \A e \in Emails :
            Cardinality({t \in Presentable :
                            t.sub = e /\ RefreshAnswer(t).status = 200}) <= 1
    /\ \A t \in issued :
            (SignedRefresh(t) /\ StoredToken(t.sub) # t) => RefreshAnswer(t).status # 200

\* a second login superseded a refresh token that has not expired
C5_Witness ==
    /\ resp.op = "login" /\ resp.status = 200
    /\ \E t \in issued :
            /\ SignedRefresh(t) /\ t.sub = resp.email
            /\ t # resp.refresh_token
            /\ Unexpired(t)
            /\ RefreshAnswer(t).status = 401

\* what a login with these credentials would answer in the current state
LoginAnswer(email, password) == login_result(users, email, password).resp

Refused(answer, detail) == answer.status = 401 /\ answer.detail = detail

Granted(answer) ==
    /\ answer.status = 200
    /\ answer.token_type = "bearer"
    /\ answer.access_token # NoToken
    /\ answer.refresh_token # NoToken

\* C2: of two in-flight refreshes presenting the same token at most one
\* is answered with a new token pair
C2_AtMostOneRefreshSucceeds ==
    \A r1, r2 \in Reqs :
        (/\ r1 # r2
         /\ reqs[r1].pc = "done" /\ reqs[r1].resp.op = "refresh_token"
         /\ reqs[r2].pc = "done" /\ reqs[r2].resp.op = "refresh_token"
         /\ reqs[r1].resp.status = 200 /\ reqs[r2].resp.status = 200)
        => reqs[r1].resp.token # reqs[r2].resp.token

\* C6 as stated: with the credentials of the registration, login answers
\* 'Email not confirmed' while the user is unconfirmed and succeeds in every
\* state in which the user is confirmed
C6_LoginAfterConfirm ==
    \A i \in 1..Len(users) :
        LET answer == LoginAnswer(users[i].email, SignupPassword(users[i].email))
        IN  IF users[i].confirmed
            THEN Granted(answer)
            ELSE Refused(answer, "Email not confirmed")

C6_LoginGate ==
    \A i \in 1..Len(users) :
        LET answer == LoginAnswer(users[i].email, SignupPassword(users[i].email))
        IN  IF ~users[i].confirmed THEN Refused(answer, "Email not confirmed")
            ELSE IF verify_password(SignupPassword(users[i].email), users[i].password)
                THEN Granted(answer)
            ELSE Refused(answer, "Invalid password")

\* C6 amended: with the credentials of the registration, login answers
\* 'Email not confirmed' while the user is unconfirmed; once confirmed the
\* user stays confirmed and the login succeeds for as long as no
\* reset_password has stored another password
C6_LoginAfterConfirmUntilReset ==
    [][/\ Len(users') >= Len(users)
       /\ \A i \in 1..Len(users) : users[i].confirmed => users'[i].confirmed
       /\ C6_LoginGate']_vars

\* the registration credentials were refused before the confirmation and are
\* granted now
C6_Witness ==
    /\ resp.op = "login" /\ resp.status = 200
    /\ users[Row(resp.email)].confirmed
    /\ verify_password(SignupPassword(resp.email), users[Row(resp.email)].password)

\* C7: a login with an unknown email and a login with a known, confirmed
\* email and a wrong password get the same status and message
C7_LoginFailureUniform ==
    \A e1, e2 \in Emails : \A p1, p2 \in Passwords :
        (/\ Row(e1) = 0
         /\ Row(e2) # 0
         /\ users[Row(e2)].confirmed
         /\ ~verify_password(p2, users[Row(e2)].password))
        => /\ LoginAnswer(e1, p1).status = LoginAnswer(e2, p2).status
           /\ LoginAnswer(e1, p1).detail = LoginAnswer(e2, p2).detail

\* C8: a signup with the email of an existing user answers 409 'Account
\* already exists', adds no user, schedules and delivers no email and leaves
\* every row as it was
C8_DuplicateSignupRejected ==
    [][(resp'.op = "signup" /\ Row(resp'.email) # 0)
        => /\ resp'.status = 409
           /\ resp'.detail = "Account already exists"
           /\ resp'.mail = NoMail
           /\ users' = users
           /\ mailbox' = mailbox]_vars

\* a signup was refused for the email of a confirmed, logged-in user
C8_Witness ==
    /\ resp.op = "signup" /\ resp.status = 409
    /\ users[Row(resp.email)].confirmed
    /\ StoredToken(resp.email) # NoToken
    /\ ~verify_password(SignupPassword(resp.email), users[Row(resp.email)].password)

\* C9: the store never holds two users with one email, and a signup that
\* lost the race for its email is answered 409 like any duplicate
C9_RaceLoserGetsDuplicateEmail ==
    /\ \A i, j \in 1..Len(users) : users[i].email = users[j].email => i = j
    /\ \A r \in Reqs :
            (reqs[r].pc = "done" /\ reqs[r].resp.op = "signup")
            => reqs[r].resp.status \in {201, 409}

\* C10: the password column of every row holds a digest of the hasher and
\* never a plaintext a client submitted
C10_PasswordsAreDigests ==
    \A i \in 1..Len(users) :
        /\ users[i].password \in Digests
        /\ users[i].password \notin Passwords

\* a reset has replaced the password of a registered user
C10_Witness ==
    /\ resp.op = "reset_password" /\ resp.status = 200
    /\ ~verify_password(SignupPassword(resp.email), users[Row(resp.email)].password)

\* what a confirmation presenting this token would do in the current state
ConfirmOutcome(token) == confirmed_email_result(users, token)

\* the codec accepts the token where no purpose is asked for
EmailTokenOk(token) == get_email_from_token(token).ok

\* C11: a confirmation with a still-valid token of an unconfirmed user sets
\* confirmed and nothing else and answers 'Email confirmed'; from then on the
\* user stays confirmed, and every confirmation with a still-valid token of
\* that user answers 200 'Your email is already confirmed' and leaves the
\* store as it was
C11_Repeat ==
    \A t \in Presentable :
        (EmailTokenOk(t) /\ Row(t.sub) # 0) =>
            LET o == ConfirmOutcome(t)
                i == Row(t.sub)
            IN  /\ o.resp.status = 200
                /\ IF users[i].confirmed
                   THEN /\ o.resp.detail = "Your email is already confirmed"
                        /\ o.store = users
                   ELSE /\ o.resp.detail = "Email confirmed"
                        /\ o.store = [users EXCEPT ![i].confirmed = TRUE]

C11_ConfirmIdempotent ==
    /\ []C11_Repeat
    /\ [][/\ \A i \in 1..Len(users) :
            users[i].confirmed => (i <= Len(users') /\ users'[i].confirmed)
          /\ (resp'.op = "confirmed_email" /\ resp'.detail = "Email confirmed") =>
                /\ ~users[Row(resp'.email)].confirmed
                /\ users' = [users EXCEPT ![Row(resp'.email)].confirmed = TRUE]
          /\ (resp'.op = "confirmed_email"
                /\ resp'.detail = "Your email is already confirmed") =>
                    users' = users]_vars

\* a confirmation was repeated with the emailed token, the only token of that
\* user there is, while the token is still valid
C11_Witness ==
    /\ resp.op = "confirmed_email"
    /\ resp.detail = "Your email is already confirmed"
    /\ mailbox[resp.email] # NoToken
    /\ EmailTokenOk(mailbox[resp.email])
    /\ \A t \in issued : t.sub # resp.email

\* C12: a confirmation with a token that is expired, carries a signature the
\* server did not make or is no token, or names an email of no user, is
\* answered with an error (422 'Invalid token for email verification', 400
\* 'Verification error') and changes no row
C12_Rejected(token) == ~EmailTokenOk(token) \/ Row(token.sub) = 0

C12_WouldFail ==
    \A t \in Presentable :
        C12_Rejected(t) =>
            LET o == ConfirmOutcome(t)
            IN  /\ o.store = users
                /\ IF ~EmailTokenOk(t)
                   THEN /\ o.resp.status = 422
                        /\ o.resp.detail = "Invalid token for email verification"
                   ELSE /\ o.resp.status = 400
                        /\ o.resp.detail = "Verification error"

C12_FailedConfirmChangesNothing ==
    /\ []C12_WouldFail
    /\ [][(resp'.op = "confirmed_email" /\ resp'.status # 200) =>
            /\ resp'.status \in {400, 422}
            /\ users' = users]_vars

\* a confirmation was refused while the emailed token of an unconfirmed user
\* had expired
C12_Witness ==
    /\ resp.op = "confirmed_email" /\ resp.status = 422
    /\ \E e \in Emails :
            /\ mailbox[e] # NoToken
            /\ ~Unexpired(mailbox[e])
            /\ Row(e) # 0
            /\ ~users[Row(e)].confirmed

\* what a reset presenting this token and this password twice would do
ResetOutcome(token, password) == reset_password_result(users, token, password, password)

\* C13: a refresh token or an access token handed out by login or refresh is
\* accepted neither by confirmed_email nor by reset_password, which leave
\* the store as it was, and an access token is refused by refresh_token
C13_PurposeSeparation ==
    \A t \in issued :
        /\ /\ ConfirmOutcome(t).resp.status # 200
           /\ ConfirmOutcome(t).store = users
        /\ \A p \in Passwords :
            /\ ResetOutcome(t, p).resp.status # 200
            /\ ResetOutcome(t, p).store = users
        /\ t.scope = "access_token" => RefreshAnswer(t).status = 401

\* C14: the token carried by the confirmation email is not accepted by
\* reset_password, and the token carried by the reset email is not accepted
\* by confirmed_email
C14_EmailTokenPurposes ==
    /\ resp.mail.template = "email_verify_template.html" =>
            \A p \in Passwords :
                /\ ResetOutcome(create_email_token(resp.mail.to), p).resp.status # 200
                /\ ResetOutcome(create_email_token(resp.mail.to), p).store = users
    /\ resp.mail.template = "email_reset_template.html" =>
            ConfirmOutcome(create_email_token(resp.mail.to)).resp.status # 200

\* a token the server signed, well formed, presented after its expires_at
SignedExpired(token) ==
    /\ token.sig = "server"
    /\ token.scope \in {"access_token", "refresh_token", "email_token"}
    /\ now > token.exp

\* C15: a correctly signed, well-formed token of any kind presented after its
\* expires_at is rejected by refresh_token, confirmed_email, reset_password
\* and the current-user resolution, and none of them changes the store
C15_ExpiredRejected ==
    \A t \in Presentable :
        SignedExpired(t) =>
            /\ RefreshAnswer(t).status = 401
            /\ refresh_token_result(users, t).store = users
            /\ ConfirmOutcome(t).resp.status = 422
            /\ ConfirmOutcome(t).store = users
            /\ \A p \in Passwords :
                /\ ResetOutcome(t, p).resp.status = 500
                /\ ResetOutcome(t, p).store = users
            /\ get_current_user(users, t) = 0
            /\ read_users_me_result(users, t).resp.status = 401
            /\ read_users_me_result(users, t).store = users

\* a reset was refused while an access token, the stored refresh token and an
\* emailed token of a user had all expired
C15_Witness ==
    /\ resp.op = "reset_password" /\ resp.status = 500
    /\ \E t \in issued : t.scope = "access_token" /\ SignedExpired(t)
    /\ \E t \in issued :
            SignedRefresh(t) /\ SignedExpired(t) /\ StoredToken(t.sub) = t
    /\ \E e \in Emails : mailbox[e] # NoToken /\ SignedExpired(mailbox[e])

C17_MismatchWouldFail ==
    \A t \in Presentable : \A form \in ResetForms :
        form[1] # form[2] =>
            LET o == reset_password_result(users, t, form[1], form[2])
            IN  /\ o.resp.status = 422
                /\ o.resp.detail = "Unprocessable Entity"
                /\ o.resp.email = ""
                /\ o.store = users

C17_PasswordMismatchFirst ==
    /\ []C17_MismatchWouldFail
    /\ [][(resp'.op = "reset_password" /\ resp'.status = 422) =>
            /\ resp'.detail = "Unprocessable Entity"
            /\ users' = users]_vars

\* a reset with differing fields was refused while a token that a reset
\* accepts and an expired emailed token were both at hand
C17_Witness ==
    /\ resp.op = "reset_password" /\ resp.status = 422
    /\ \E t \in Presentable : EmailTokenOk(t) /\ Row(t.sub) # 0
    /\ \E e \in Emails : mailbox[e] # NoToken /\ SignedExpired(mailbox[e])

\* C18: a reset with matching fields that fails (the token does not parse or
\* names an email of no user) is answered with a verification error, a
\* client error and not an internal server error, and changes no row
C18_ResetVerificationError ==
    [][(resp'.op = "reset_password" /\ resp'.status \notin {200, 422}) =>
            /\ resp'.status \in 400..499
            /\ users' = users]_vars

\* C19: a reset with a still-valid token of a user and matching fields
\* succeeds and stores the digest of the new password in that user's row,
\* however often the token has been used; the token a reset has just
\* accepted is still presentable and still accepted
C19_Reusable ==
    \A t \in Presentable :
        (EmailTokenOk(t) /\ Row(t.sub) # 0) =>
            \A p \in Passwords :
                LET o == ResetOutcome(t, p)
                IN  /\ o.resp.status = 200
                    /\ o.resp.detail = "Password reset successfully"
                    /\ o.store = [users EXCEPT
                                    ![Row(t.sub)].password = get_password_hash(p)]

C19_StillAccepted ==
    (resp.op = "reset_password" /\ resp.status = 200) =>
        /\ users[Row(resp.email)].password \in Digests
        /\ \E t \in Presentable : t.sub = resp.email /\ EmailTokenOk(t)

C19_ResetTokenNotConsumed ==
    /\ []C19_Reusable
    /\ []C19_StillAccepted
    /\ [][(resp'.op = "reset_password" /\ resp'.status = 200) =>
            /\ Presentable \subseteq Presentable'
            /\ \E p \in Passwords :
                users' = [users EXCEPT
                            ![Row(resp'.email)].password = get_password_hash(p)]]_vars

\* a reset succeeded with the emailed token, the only token of that user
\* there is, and a further reset with it would store another password
C19_Witness ==
    /\ resp.op = "reset_password" /\ resp.status = 200
    /\ mailbox[resp.email] # NoToken
    /\ EmailTokenOk(mailbox[resp.email])
    /\ \A t \in issued : t.sub # resp.email
    /\ \E p \in Passwords :
            /\ ResetOutcome(mailbox[resp.email], p).resp.status = 200
            /\ ResetOutcome(mailbox[resp.email], p).store # users

\* C20: verify_by_email always acknowledges: for an email of no user, of an
\* unconfirmed user and of a confirmed user the answer is a success; for a
\* confirmed user it is 'Your email is already confirmed' with no email
\* sent, for an unconfirmed user a confirmation email is sent, and the store
\* is never changed
C20_Acknowledged ==
    resp.op = "verify_by_email" =>
        /\ resp.status \in {200, 202}
        /\ IF Row(resp.email) = 0 THEN resp.mail = NoMail
           ELSE IF users[Row(resp.email)].confirmed
                THEN /\ resp.detail = "Your email is already confirmed"
                     /\ resp.mail = NoMail
           ELSE resp.mail = Mail("email_verify_template.html", users[Row(resp.email)])

C20_ResendNeverFails ==
    [][resp'.op = "verify_by_email" => (C20_Acknowledged' /\ users' = users)]_vars

\* what the client sees of a response
Seen(answer) == <<answer.status, answer.detail>>

\* C21: forgot_password answers 202 'Check your email for reset password.'
\* for the email of a user and for an email of no user alike; the reset email
\* is scheduled and delivered only for the email of a user, and the store is
\* never changed
C21_SameAnswer ==
    \A e1, e2 \in Emails : \A d1, d2 \in BOOLEAN :
        /\ Seen(forgot_password_result(users, e1, d1).resp) =
                <<202, "Check your email for reset password.">>
        /\ Seen(forgot_password_result(users, e1, d1).resp) =
                Seen(forgot_password_result(users, e2, d2).resp)

C21_ForgotPasswordUniform ==
    /\ []C21_SameAnswer
    /\ [][resp'.op = "forgot_password" =>
            /\ Seen(resp') = <<202, "Check your email for reset password.">>
            /\ users' = users
            /\ IF Row(resp'.email) = 0
               THEN resp'.mail = NoMail /\ mailbox' = mailbox
               ELSE resp'.mail = Mail("email_reset_template.html",
                                      users[Row(resp'.email)])]_vars

\* the email of no user was acknowledged while another user exists
C21_Witness ==
    /\ resp.op = "forgot_password" /\ resp.status = 202
    /\ Row(resp.email) = 0
    /\ resp.mail = NoMail
    /\ Len(users) > 0

\* C22: the answer of a signup and the row it inserts are the same whether
\* the confirmation email is delivered or lost; a signup answered with 201
\* has appended the row of its user, and no step removes a row or changes the
\* email, username or id of one
C22_SameOutcome ==
    \A body \in Bodies :
        /\ signup_result(users, body, TRUE).store = signup_result(users, body, FALSE).store
        /\ signup_result(users, body, TRUE).resp = signup_result(users, body, FALSE).resp

C22_Registered ==
    (resp.op = "signup" /\ resp.status = 201) =>
        /\ Row(resp.email) = Len(users)
        /\ resp.mail = Mail("email_verify_template.html", users[Len(users)])

C22_DispatchFireAndForget ==
    /\ []C22_SameOutcome
    /\ []C22_Registered
    /\ [][/\ Len(users') >= Len(users)
          /\ \A i \in 1..Len(users) :
                /\ users'[i].email = users[i].email
                /\ users'[i].username = users[i].username
                /\ users'[i].id = users[i].id
          /\ (resp'.op = "signup" /\ resp'.status = 201) =>
                /\ Len(users') = Len(users) + 1
                /\ SubSeq(users', 1, Len(users)) = users]_vars

\* a signup was answered with success and its row is in the store although
\* the confirmation email never arrived
C22_Witness ==
    /\ resp.op = "signup" /\ resp.status = 201
    /\ mailbox[resp.email] = NoToken
    /\ Row(resp.email) # 0

\* a refresh token the server signed for a user who holds another one or none
C25_Stale(t) ==
    /\ SignedRefresh(t)
    /\ Row(t.sub) # 0
    /\ StoredToken(t.sub) # t

\* a refresh presenting t is refused and leaves a store in which the user has
\* no stored token and refresh accepts no presentable token of that user
C25_ClearedAfter(t) ==
    LET o == refresh_token_result(users, t)
    IN  /\ o.resp.status = 401
        /\ o.store[Row(t.sub)].refresh_token = NoToken
        /\ \A t2 \in Presentable :
                t2.sub = t.sub => refresh_token_result(o.store, t2).resp.status = 401

\* C25 as stated: a refresh presenting any stale, correctly signed refresh
\* token of a user clears the stored token, so that the current token is
\* refused as well
C25_StaleRefreshClears ==
    \A t \in issued : C25_Stale(t) => C25_ClearedAfter(t)

C25_UnexpiredStaleClears ==
    \A t \in issued : (C25_Stale(t) /\ Unexpired(t)) => C25_ClearedAfter(t)

\* without a stored token no presentable token of the user is accepted
C25_NoSessionNoRefresh ==
    \A e \in Emails :
        (Row(e) # 0 /\ StoredToken(e) = NoToken) =>
            \A t \in Presentable : t.sub = e => RefreshAnswer(t).status # 200

\* C25 amended: a refresh presenting a stale, correctly signed refresh token
\* that has not expired clears the stored token, so that the current token is
\* refused as well; a user without a stored token gets one again only by a
\* successful login
C25_StaleRefreshEndsSession ==
    /\ []C25_UnexpiredStaleClears
    /\ []C25_NoSessionNoRefresh
    /\ [][\A e \in Emails :
            (Row(e) # 0 /\ StoredToken(e) = NoToken /\ StoredToken(e)' # NoToken) =>
                /\ resp'.op = "login"
                /\ resp'.status = 200
                /\ resp'.email = e]_vars

\* the token of an earlier login was presented and refused, and the token of
\* the later login, not expired, is refused now as well
C25_Witness ==
    /\ resp.op = "refresh_token" /\ resp.detail = "Invalid refresh token"
    /\ StoredToken(resp.email) = NoToken
    /\ \E t \in issued :
            /\ SignedRefresh(t) /\ Unexpired(t)
            /\ t.sub = resp.email
            /\ t.iat > resp.token.iat
            /\ RefreshAnswer(t).status = 401

\* C26: for a confirmed user login succeeds with exactly the password whose
\* digest is stored and answers 'Invalid password' for every other one; a
\* successful reset stores the digest of its new password, so from then on
\* the new password is granted and the old one refused
C26_PasswordGate ==
    \A i \in 1..Len(users) : \A p \in Passwords :
        users[i].confirmed =>
            IF users[i].password = get_password_hash(p)
            THEN Granted(LoginAnswer(users[i].email, p))
            ELSE Refused(LoginAnswer(users[i].email, p), "Invalid password")

C27_ResetChangesOnlyPassword ==
    [][(resp'.op = "reset_password" /\ resp'.status = 200) =>
            /\ Len(users') = Len(users)
            /\ \A i \in 1..Len(users) :
                    users'[i] = IF users[i].email = resp'.email
                                THEN [users[i] EXCEPT !.password = users'[i].password]
                                ELSE users[i]
            /\ \A t \in issued :
                    RefreshAnswer(t).status = 200 => RefreshAnswer(t)'.status = 200]_vars

\* the password of a user was reset and the stored refresh token of that
\* user is still accepted, while another user is still unconfirmed
C27_Witness ==
    /\ resp.op = "reset_password" /\ resp.status = 200
    /\ StoredToken(resp.email) # NoToken
    /\ RefreshAnswer(StoredToken(resp.email)).status = 200
    /\ \E i \in 1..Len(users) : ~users[i].confirmed

\* C28: a login that is refused, for an unknown email, an unconfirmed email
\* or a wrong password, leaves the store as it was
C28_RefusedWouldKeep ==
    \A e \in Emails : \A p \in Passwords :
        login_result(users, e, p).resp.status # 200 =>
            /\ login_result(users, e, p).resp.status = 401
            /\ login_result(users, e, p).store = users

C28_FailedLoginChangesNothing ==
    /\ []C28_RefusedWouldKeep
    /\ [][(resp'.op = "login" /\ resp'.status # 200) => users' = users]_vars

\* a login with a wrong password was refused and the stored refresh token of
\* that user is still accepted
C28_Witness ==
    /\ resp.op = "login" /\ resp.detail = "Invalid password"
    /\ StoredToken(resp.email) # NoToken
    /\ RefreshAnswer(StoredToken(resp.email)).status = 200

\* C29: a user with a stored refresh token is confirmed; a row is created
\* unconfirmed and without a stored token; no step takes a confirmation back
C29_SessionImpliesConfirmed ==
    \A i \in 1..Len(users) : users[i].refresh_token # NoToken => users[i].confirmed

C29_ConfirmedBeforeSession ==
    /\ []C29_SessionImpliesConfirmed
    /\ [][/\ \A i \in 1..Len(users) :
                users[i].confirmed => (i <= Len(users') /\ users'[i].confirmed)
          /\ \A i \in (Len(users) + 1)..Len(users') :
                ~users'[i].confirmed /\ users'[i].refresh_token = NoToken]_vars

\* one user is confirmed and holds a refresh token, another is unconfirmed
\* and holds none
C29_Witness ==
    \E i, j \in 1..Len(users) :
        /\ users[i].confirmed /\ users[i].refresh_token # NoToken
        /\ ~users[j].confirmed /\ users[j].refresh_token = NoToken

\* no request is being answered: the states in which a request can start
Idle == resp = NoResp

ContactOps == {"get_contacts_by_upcoming_birthdays", "get_contacts", "get_contact",
               "create_contact", "update_contact", "remove_contact"}

\* the id of the user a response was made for, 0 when nobody was resolved
Caller(answer) == IF Row(answer.email) = 0 THEN 0 ELSE users[Row(answer.email)].id

\* C23: for a caller resolved from a token and a contact of another user,
\* get_contact, update_contact and remove_contact with the id of that contact
\* answer 404 and leave the table as it was, and neither get_contacts nor
\* the upcoming birthdays return it; no contacts request changes or removes a
\* row of a user other than its caller, and every row it returns is the
\* caller's
C23_WouldIsolate ==
    \A t \in Presentable :
        (Idle /\ CurrentUser(users, t) # 0) =>
            \A i \in 1..Len(contacts.rows) :
                LET c == contacts.rows[i]
                IN  c.user_id # users[CurrentUser(users, t)].id =>
                    /\ get_contact_result(users, contacts, t, c.id).resp.status = 404
                    /\ remove_contact_result(users, contacts, t, c.id).resp.status = 404
                    /\ remove_contact_result(users, contacts, t, c.id).table = contacts
                    /\ \A body \in ContactBodies :
                        /\ update_contact_result(users, contacts, t, c.id, body)
                                .resp.status = 404
                        /\ update_contact_result(users, contacts, t, c.id, body)
                                .table = contacts
                    /\ \A limit \in Limits, offset \in Offsets :
                        /\ c \notin get_contacts_by_upcoming_birthdays_result(
                                        users, contacts, t, limit, offset).resp.body
                        /\ \A f \in FirstNames, l \in LastNames, e \in EmailParts :
                                c \notin get_contacts_result(
                                            users, contacts, t, f, l, e, limit, offset)
                                        .resp.body

C23_ContactIsolation ==
    /\ []C23_WouldIsolate
    /\ [][resp'.op \in ContactOps =>
            /\ \A c \in resp'.body : c.user_id = Caller(resp')
            /\ \A i \in 1..Len(contacts.rows) :
                    contacts.rows[i].user_id # Caller(resp') =>
                        \E j \in 1..Len(contacts'.rows) :
                            contacts'.rows[j] = contacts.rows[i]]_vars

\* a user asked for the id of a contact of the other user and got 404
C23_Witness ==
    /\ resp.op = "get_contact" /\ resp.status = 404
    /\ \E i \in 1..Len(contacts.rows) :
            /\ contacts.rows[i].id = resp.query.contact_id
            /\ contacts.rows[i].user_id # Caller(resp)

\* C24: with a token the current-user resolution does not accept, each of
\* the six contacts requests answers 401 with no contact in the response and
\* leaves the table as it was; the table changes only in a request made for
\* a resolved user
C24_WouldRefuse ==
    \A t \in Presentable :
        (Idle /\ get_current_user(users, t) = 0) =>
            /\ \A o \in
                    {get_contact_result(users, contacts, t, id) : id \in ContactIds}
                    \cup {remove_contact_result(users, contacts, t, id) : id \in ContactIds}
                    \cup {create_contact_result(users, contacts, t, b) : b \in ContactBodies}
                    \cup {update_contact_result(users, contacts, t, id, b) :
                            id \in ContactIds, b \in ContactBodies}
                    \cup {get_contacts_by_upcoming_birthdays_result(
                                users, contacts, t, lim, off) :
                            lim \in Limits, off \in Offsets}
                    \cup {get_contacts_result(users, contacts, t, f, l, e, lim, off) :
                            f \in FirstNames, l \in LastNames, e \in EmailParts,
                            lim \in Limits, off \in Offsets} :
                    /\ o.resp.status = 401
                    /\ o.resp.body = {}
                    /\ o.table = contacts

C24_ContactsBehindCurrentUser ==
    /\ []C24_WouldRefuse
    /\ [][/\ (resp'.op \in ContactOps /\ resp'.status = 401) =>
                (contacts' = contacts /\ resp'.body = {})
          /\ contacts' # contacts =>
                /\ resp'.op \in {"create_contact", "update_contact", "remove_contact"}
                /\ resp'.status \in {200, 201, 204}
                /\ Caller(resp') # 0]_vars

\* a create was refused with 401 while an access token that has expired was
\* at hand and the table held a contact
C24_Witness ==
    /\ resp.op = "create_contact" /\ resp.status = 401
    /\ \E t \in issued : t.scope = "access_token" /\ SignedExpired(t)
    /\ Len(contacts.rows) > 0

\* rows[i] satisfies P and lies on the page: at least offset and fewer than
\* offset + limit rows before it satisfy P
OnPage(rows, i, P(_), limit, offset) ==
    LET before == Cardinality({j \in 1..(i - 1) : P(rows[j])})
    IN  P(rows[i]) /\ offset <= before /\ before < offset + limit

C30_Expected(limit, offset, user_id, rows, first_name, last_name, email) ==
    LET hit(field, part) ==
            {rows[i] : i \in {j \in 1..Len(rows) :
                /\ part # NoFilter
                /\ OnPage(rows, j,
                          LAMBDA c : c.user_id = user_id /\ Contains(c[field], part),
                          limit, offset)}}
        union == hit("first_name", first_name) \cup hit("last_name", last_name)
                 \cup hit("email", email)
        unfiltered == {rows[i] : i \in {j \in 1..Len(rows) :
                        OnPage(rows, j, LAMBDA c : c.user_id = user_id, limit, offset)}}
    IN  IF (first_name = NoFilter /\ last_name = NoFilter /\ email = NoFilter)
            \/ union = {}
        THEN unfiltered
        ELSE union

====
